---- MODULE Spec2Model ----
(***************************************************************************)
(* Model of the escrow trading contract of src/contracts.py                *)
(* (TradingContract, PyTeal, AVM version 5) and of the transaction groups  *)
(* that src/example.py (TradeExample) builds to drive it.                  *)
(*                                                                         *)
(* The approval program is evaluated by the operators on_create, on_call,  *)
(* on_open, on_buy, on_close, on_cancel, on_delete and approval_program,   *)
(* each translated from the method of the same name.  They work on an      *)
(* evaluation state  [ok, algo, hold, gs, inner]:                          *)
(*   ok     FALSE once the program (or a ledger operation) has failed      *)
(*   algo   currency balance of every account                              *)
(*   hold   asset holding of every account, NoHolding when not opted in    *)
(*   gs     the application's global key-value store                       *)
(*   inner  the inner transactions submitted so far by the call            *)
(*                                                                         *)
(* The ledger rules used are those the contract relies on: a payment       *)
(* fails when it overspends, an asset transfer of a positive amount needs  *)
(* both holdings to exist, a zero self-transfer opts in, a close-to        *)
(* moves the whole holding and deletes it, and a transaction group         *)
(* commits as a whole or not at all.  Transaction fees, minimum-balance    *)
(* requirements and the availability of foreign references are ledger      *)
(* policy outside the source and are not modelled (fees are 0): they can   *)
(* only turn approved groups into rejected ones.                           *)
(*                                                                         *)
(* The AVM's unsigned 64-bit integers (8 bytes of 8 bits) are scaled to    *)
(* UintBytes digits of radix ByteBase, so that overflow is reachable.      *)
(***************************************************************************)
EXTENDS Integers, Sequences, FiniteSets, TLC

\* ------------------------------------------------------------------ bounds
UintBytes == 2      \* bytes of an AVM uint (8 in the AVM)
ByteBase  == 3      \* values of one byte (256 in the AVM)
MaxPrice  == 1      \* ordinary prices tried by open: 0..MaxPrice
Supply    == 2      \* units of the traded asset held by the seller at start
Funds     == 2      \* currency units held by the buyer at start

RECURSIVE Power(_, _)
Power(b, n) == IF n = 0 THEN 1 ELSE b * Power(b, n - 1)

MaxUint == Power(ByteBase, UintBytes) - 1

\* ---------------------------------------------------------------- accounts
Users    == {"alice", "bob"}
App      == "app"            \* Global.current_application_address()
ZeroAddr == "zero"           \* the all-zero address, default of address fields
Accounts == Users \cup {App}

Assets   == {1, 2}           \* asset ids; 0 is "no asset"

NoHolding == -1              \* the account has no holding line for the asset
Unset     == -1              \* a global uint key that was never written
NoSeller  == "unset"         \* the seller key was never written

\* ------------------------------------------------------------ transactions
\* Every transaction has every field, with the AVM's zero defaults.
Txn0 == [type |-> "none", sender |-> ZeroAddr, receiver |-> ZeroAddr, amount |-> 0,
         xfer_asset |-> 0, asset_amount |-> 0, close_to |-> ZeroAddr,
         on_completion |-> "NoOp",
         app_id |-> 0, args |-> <<>>, assets |-> <<>>]

PaymentTxn(sender, receiver, amt) ==
    [Txn0 EXCEPT !.type = "pay", !.sender = sender, !.receiver = receiver, !.amount = amt]

AssetTransferTxn(sender, receiver, index, amt) ==
    [Txn0 EXCEPT !.type = "axfer", !.sender = sender, !.receiver = receiver,
                 !.xfer_asset = index, !.asset_amount = amt]

AssetCloseTxn(sender, index, closeTo) ==
    [Txn0 EXCEPT !.type = "axfer", !.sender = sender, !.xfer_asset = index,
                 !.close_to = closeTo]

ApplicationCallTxn(sender, index, on_complete, app_args, foreign_assets) ==
    [Txn0 EXCEPT !.type = "appl", !.sender = sender, !.app_id = index,
                 !.on_completion = on_complete, !.args = app_args,
                 !.assets = foreign_assets]

\* price.to_bytes(8, 'big'): big-endian, fixed width.
RECURSIVE to_bytes(_, _)
to_bytes(n, len) ==
    IF len = 0 THEN <<>>
    ELSE Append(to_bytes(n \div ByteBase, len - 1), n % ByteBase)

\* Btoi: big-endian decoding; the opcode fails on more than UintBytes bytes.
RECURSIVE BtoiValue(_)
BtoiValue(b) ==
    IF Len(b) = 0 THEN 0
    ELSE BtoiValue(SubSeq(b, 1, Len(b) - 1)) * ByteBase + b[Len(b)]

BtoiOk(b) == Len(b) <= UintBytes

\* ------------------------------------------------------------------ ledger
Fail(st) == [st EXCEPT !.ok = FALSE]

\* A payment: fails when the sender overspends.
Pay(st, from, to, amt) ==
    IF ~st.ok \/ st.algo[from] < amt THEN Fail(st)
    ELSE [st EXCEPT !.algo = [[@ EXCEPT ![from] = @ - amt] EXCEPT ![to] = @ + amt]]

HasHolding(st, a, asset) == a \in Accounts /\ st.hold[a][asset] # NoHolding

\* Moving amt > 0 units needs both holdings; moving 0 units touches nothing.
MoveAsset(st, from, to, asset, amt) ==
    IF ~st.ok THEN st
    ELSE IF amt = 0 THEN st
    ELSE IF ~HasHolding(st, from, asset) \/ st.hold[from][asset] < amt THEN Fail(st)
    ELSE IF ~HasHolding(st, to, asset) THEN Fail(st)
    ELSE [st EXCEPT !.hold = [[@ EXCEPT ![from][asset] = @ - amt]
                                 EXCEPT ![to][asset] = @ + amt]]

\* An asset transfer: a zero transfer to oneself opts in; a close-to moves the
\* rest of the holding to close_to and deletes the sender's holding line.
OptIn(st, t) ==
    IF st.ok /\ t.asset_amount = 0 /\ t.receiver = t.sender /\ ~HasHolding(st, t.sender, t.xfer_asset)
    THEN [st EXCEPT !.hold[t.sender][t.xfer_asset] = 0]
    ELSE st

DeleteHolding(st, t) ==
    IF ~st.ok THEN st ELSE [st EXCEPT !.hold[t.sender][t.xfer_asset] = NoHolding]

CloseTo(st, t) ==
    IF t.close_to = ZeroAddr THEN st
    ELSE IF ~st.ok \/ ~HasHolding(st, t.sender, t.xfer_asset) THEN Fail(st)
    ELSE DeleteHolding(MoveAsset(st, t.sender, t.close_to, t.xfer_asset,
                                 st.hold[t.sender][t.xfer_asset]), t)

AssetTransfer(st, t) ==
    IF t.xfer_asset \notin Assets THEN Fail(st)
    ELSE CloseTo(MoveAsset(OptIn(st, t), t.sender, t.receiver, t.xfer_asset, t.asset_amount), t)

\* InnerTxnBuilder.Submit(): the inner transaction is applied at once; its
\* failure fails the program.
Submit(st, t) ==
    IF ~st.ok THEN st
    ELSE [(IF t.type = "pay" THEN Pay(st, t.sender, t.receiver, t.amount)
           ELSE AssetTransfer(st, t))
          EXCEPT !.inner = Append(st.inner, t)]

\* ----------------------------------------------------------- AVM operations
GlobalGetUint(v) == IF v = Unset THEN 0 ELSE v      \* a missing key reads as 0

\* AssetHolding.balance(account, asset): hasValue() and value().
HoldingHasValue(st, a, asset) == asset \in Assets /\ HasHolding(st, a, asset)
HoldingValue(st, a, asset) == IF HoldingHasValue(st, a, asset) THEN st.hold[a][asset] ELSE 0

MulOk(a, b) == a * b <= MaxUint                      \* `*` fails on overflow

InGroup(grp, i) == i >= 0 /\ i < Len(grp)
Gtxn(grp, i) == grp[i + 1]                           \* group indexes start at 0

\* ------------------------------------------------- TradingContract (program)
\* Reject(), or a failing opcode: the program fails.  Approve() leaves ok TRUE.

\* send_algo_to(account, amount): one inner payment, unless the contract's
\* currency balance is 0.
send_algo_to(st, account, amount) ==
    IF st.algo[App] # 0
    THEN Submit(st, PaymentTxn(App, account, amount))
    ELSE st

\* on_create: token_id := Txn.assets[0].
on_create(st, txn) ==
    IF Len(txn.assets) = 0 THEN Fail(st)
    ELSE [st EXCEPT !.gs.token_id = txn.assets[1]]

\* on_open storing the price in the token_id slot.
on_open_token_key(st, txn, grp, gi) ==
    LET token_id == GlobalGetUint(st.gs.token_id)
        axfer_txn_index == gi + 1
    IN  IF ~InGroup(grp, axfer_txn_index) THEN Fail(st)
        ELSE IF ~(/\ Gtxn(grp, axfer_txn_index).type = "axfer"
                  /\ Gtxn(grp, axfer_txn_index).xfer_asset = token_id) THEN Fail(st)
        ELSE IF Len(txn.args) < 2 THEN Fail(st)
        ELSE IF ~BtoiOk(txn.args[2]) THEN Fail(st)
        ELSE LET price == BtoiValue(txn.args[2])
                 put == [st EXCEPT !.gs.token_id = price, !.gs.seller = txn.sender]
             IN  Submit(put, AssetTransferTxn(App, App, token_id, 0))

\* on_open without the check of the transferred asset's id.
on_open_any_asset(st, txn, grp, gi) ==
    LET token_id == GlobalGetUint(st.gs.token_id)
        axfer_txn_index == gi + 1
    IN  IF ~InGroup(grp, axfer_txn_index) THEN Fail(st)
        ELSE IF Gtxn(grp, axfer_txn_index).type # "axfer" THEN Fail(st)
        ELSE IF Len(txn.args) < 2 THEN Fail(st)
        ELSE IF ~BtoiOk(txn.args[2]) THEN Fail(st)
        ELSE LET price == BtoiValue(txn.args[2])
                 put == [st EXCEPT !.gs.o_price = price, !.gs.seller = txn.sender]
             IN  Submit(put, AssetTransferTxn(App, App, token_id, 0))

\* on_open: the transaction after the call must be an asset transfer of
\* token_id; price and seller are stored; the contract opts in to token_id.
on_open(st, txn, grp, gi) ==
    LET token_id == GlobalGetUint(st.gs.token_id)
        axfer_txn_index == gi + 1
    IN  IF ~InGroup(grp, axfer_txn_index) THEN Fail(st)
        ELSE IF ~(/\ Gtxn(grp, axfer_txn_index).type = "axfer"
                  /\ Gtxn(grp, axfer_txn_index).xfer_asset = token_id) THEN Fail(st)
        ELSE IF Len(txn.args) < 2 THEN Fail(st)
        ELSE IF ~BtoiOk(txn.args[2]) THEN Fail(st)
        ELSE LET price == BtoiValue(txn.args[2])
                 put == [st EXCEPT !.gs.o_price = price, !.gs.seller = txn.sender]
             IN  Submit(put, AssetTransferTxn(App, App, token_id, 0))

\* on_buy with the holding sent to the caller as asset_receiver, no amount
\* set and no close-to.
on_buy_no_close(st, txn, grp, gi) ==
    LET payment_txn_index == gi - 1
        token_id == GlobalGetUint(st.gs.token_id)
        value == HoldingValue(st, App, token_id)
        open_price == GlobalGetUint(st.gs.o_price)
    IN  IF ~InGroup(grp, payment_txn_index) THEN Fail(st)
        ELSE IF Len(txn.assets) = 0 THEN Fail(st)
        ELSE IF ~MulOk(open_price, value) THEN Fail(st)
        ELSE IF ~(/\ Gtxn(grp, payment_txn_index).type = "pay"
                  /\ Gtxn(grp, payment_txn_index).amount = open_price * value
                  /\ token_id = txn.assets[1]
                  /\ value > 0) THEN Fail(st)
        ELSE Submit(st, AssetTransferTxn(App, txn.sender, token_id, 0))

\* on_buy with the payment compared to open_price alone.
on_buy_unit_price(st, txn, grp, gi) ==
    LET payment_txn_index == gi - 1
        token_id == GlobalGetUint(st.gs.token_id)
        value == HoldingValue(st, App, token_id)
        open_price == GlobalGetUint(st.gs.o_price)
    IN  IF ~InGroup(grp, payment_txn_index) THEN Fail(st)
        ELSE IF Len(txn.assets) = 0 THEN Fail(st)
        ELSE IF ~(/\ Gtxn(grp, payment_txn_index).type = "pay"
                  /\ Gtxn(grp, payment_txn_index).amount = open_price
                  /\ token_id = txn.assets[1]
                  /\ value > 0) THEN Fail(st)
        ELSE Submit(st, AssetCloseTxn(App, token_id, txn.sender))

\* on_buy without the assertion that the holding is positive.
on_buy_no_balance_check(st, txn, grp, gi) ==
    LET payment_txn_index == gi - 1
        token_id == GlobalGetUint(st.gs.token_id)
        value == HoldingValue(st, App, token_id)
        open_price == GlobalGetUint(st.gs.o_price)
    IN  IF ~InGroup(grp, payment_txn_index) THEN Fail(st)
        ELSE IF Len(txn.assets) = 0 THEN Fail(st)
        ELSE IF ~MulOk(open_price, value) THEN Fail(st)
        ELSE IF ~(/\ Gtxn(grp, payment_txn_index).type = "pay"
                  /\ Gtxn(grp, payment_txn_index).amount = open_price * value
                  /\ token_id = txn.assets[1]) THEN Fail(st)
        ELSE Submit(st, AssetCloseTxn(App, token_id, txn.sender))

\* on_buy with a product that wraps around instead of failing.
on_buy_wrapping(st, txn, grp, gi) ==
    LET payment_txn_index == gi - 1
        token_id == GlobalGetUint(st.gs.token_id)
        value == HoldingValue(st, App, token_id)
        open_price == GlobalGetUint(st.gs.o_price)
    IN  IF ~InGroup(grp, payment_txn_index) THEN Fail(st)
        ELSE IF Len(txn.assets) = 0 THEN Fail(st)
        ELSE IF ~(/\ Gtxn(grp, payment_txn_index).type = "pay"
                  /\ Gtxn(grp, payment_txn_index).amount
                       = (open_price * value) % (MaxUint + 1)
                  /\ token_id = txn.assets[1]
                  /\ value > 0) THEN Fail(st)
        ELSE Submit(st, AssetCloseTxn(App, token_id, txn.sender))

\* open_price * holding; the whole holding is closed out to the caller.
on_buy(st, txn, grp, gi) ==
    LET payment_txn_index == gi - 1
        token_id == GlobalGetUint(st.gs.token_id)
        hasValue == HoldingHasValue(st, App, token_id)
        value == HoldingValue(st, App, token_id)
        open_price == GlobalGetUint(st.gs.o_price)
    IN  IF ~InGroup(grp, payment_txn_index) THEN Fail(st)
        ELSE IF Len(txn.assets) = 0 THEN Fail(st)
        ELSE IF ~MulOk(open_price, value) THEN Fail(st)
        ELSE IF ~(/\ Gtxn(grp, payment_txn_index).type = "pay"
                  /\ Gtxn(grp, payment_txn_index).amount = open_price * value
                  /\ token_id = txn.assets[1]
                  /\ value > 0) THEN Fail(st)
        ELSE Submit(st, AssetCloseTxn(App, token_id, txn.sender))

\* on_close without the seller assertion.
on_close_anyone(st, txn) ==
    LET open_price == GlobalGetUint(st.gs.o_price)
        token_id == GlobalGetUint(st.gs.token_id)
        hasValue == HoldingHasValue(st, App, token_id)
        value == HoldingValue(st, App, token_id)
    IN  IF hasValue
        THEN IF ~MulOk(open_price, value) THEN Fail(st)
             ELSE send_algo_to(st, txn.sender, open_price * value)
        ELSE st

\* on_close: only the stored seller; when the contract has a holding line
\* for token_id, send_algo_to(caller, open_price * holding).
on_close(st, txn) ==
    LET open_price == GlobalGetUint(st.gs.o_price)
        token_id == GlobalGetUint(st.gs.token_id)
        hasValue == HoldingHasValue(st, App, token_id)
        value == HoldingValue(st, App, token_id)
        seller == st.gs.seller
    IN  IF seller = NoSeller THEN Fail(st)          \* BytesEq on a uint fails
        ELSE IF seller # txn.sender THEN Fail(st)
        ELSE IF hasValue
             THEN IF ~MulOk(open_price, value) THEN Fail(st)
                  ELSE send_algo_to(st, txn.sender, open_price * value)
             ELSE st

\* on_cancel sending one unit to the caller instead of closing out.
on_cancel_one_unit(st, txn) ==
    LET token_id == GlobalGetUint(st.gs.token_id)
        hasValue == HoldingHasValue(st, App, token_id)
    IN  IF Len(txn.assets) = 0 THEN Fail(st)
        ELSE IF token_id # txn.assets[1] THEN Fail(st)
        ELSE IF hasValue THEN Submit(st, AssetTransferTxn(App, txn.sender, token_id, 1))
        ELSE Fail(st)

\* on_cancel without the check of the call's first referenced asset.
on_cancel_any_asset(st, txn) ==
    LET token_id == GlobalGetUint(st.gs.token_id)
        hasValue == HoldingHasValue(st, App, token_id)
    IN  IF hasValue THEN Submit(st, AssetCloseTxn(App, token_id, txn.sender))
        ELSE Fail(st)

\* on_cancel: when the contract has a holding line for token_id it is closed
\* out to the caller; otherwise Reject().
on_cancel(st, txn) ==
    LET token_id == GlobalGetUint(st.gs.token_id)
        hasValue == HoldingHasValue(st, App, token_id)
    IN  IF Len(txn.assets) = 0 THEN Fail(st)
        ELSE IF token_id # txn.assets[1] THEN Fail(st)
        ELSE IF hasValue THEN Submit(st, AssetCloseTxn(App, token_id, txn.sender))
        ELSE Fail(st)

\* on_delete refusing while the contract holds units of token_id.
on_delete_guarded(st) ==
    IF HoldingValue(st, App, GlobalGetUint(st.gs.token_id)) > 0 THEN Fail(st) ELSE st

\* on_delete: Approve().
on_delete(st) == st

\* on_call approving when no selector matches.
on_call_default_ok(st, txn, grp, gi) ==
    IF Len(txn.args) = 0 THEN Fail(st)
    ELSE LET on_call_method == txn.args[1]
         IN  CASE on_call_method = "open"   -> on_open(st, txn, grp, gi)
               [] on_call_method = "buy"    -> on_buy(st, txn, grp, gi)
               [] on_call_method = "close"  -> on_close(st, txn)
               [] on_call_method = "cancel" -> on_cancel(st, txn)
               [] OTHER                     -> st

\* on_call: dispatch on the first argument; Cond fails when nothing matches.
on_call(st, txn, grp, gi) ==
    IF Len(txn.args) = 0 THEN Fail(st)
    ELSE LET on_call_method == txn.args[1]
         IN  CASE on_call_method = "open"   -> on_open(st, txn, grp, gi)
               [] on_call_method = "buy"    -> on_buy(st, txn, grp, gi)
               [] on_call_method = "close"  -> on_close(st, txn)
               [] on_call_method = "cancel" -> on_cancel(st, txn)
               [] OTHER                     -> Fail(st)

\* approval_program approving opt-in.
approval_program_optin_ok(st, txn, grp, gi) ==
    CASE txn.app_id = 0                                  -> on_create(st, txn)
      [] txn.on_completion = "NoOp"                      -> on_call(st, txn, grp, gi)
      [] txn.on_completion = "DeleteApplication"         -> on_delete(st)
      [] txn.on_completion = "OptIn"                     -> st
      [] OTHER                                           -> Fail(st)

\* approval_program: the first matching branch of the Cond.
approval_program(st, txn, grp, gi) ==
    CASE txn.app_id = 0                                  -> on_create(st, txn)
      [] txn.on_completion = "NoOp"                      -> on_call(st, txn, grp, gi)
      [] txn.on_completion = "DeleteApplication"         -> on_delete(st)
      [] txn.on_completion \in {"OptIn", "CloseOut", "UpdateApplication"} -> Fail(st)
      [] OTHER                                           -> Fail(st)

\* -------------------------------------------------------- group evaluation
\* An application call: the call needs the application to exist (app_id 0
\* creates it); the approval program decides; an approved call then takes its
\* on-completion effect (CloseOut needs local state, which no account ever
\* has, since the program rejects every opt-in of an existing application).
OnCompletion(r, t) ==
    IF ~r.ok THEN r
    ELSE CASE t.on_completion = "CloseOut"          -> Fail(r)
           [] t.on_completion = "DeleteApplication" -> [r EXCEPT !.app = "deleted"]
           [] t.app_id = 0                          -> [r EXCEPT !.app = "live"]
           [] OTHER                                 -> r

ApplicationCall(st, grp, gi) ==
    IF st.app # (IF Gtxn(grp, gi).app_id = 0 THEN "none" ELSE "live") THEN Fail(st)
    ELSE OnCompletion(approval_program(st, Gtxn(grp, gi), grp, gi), Gtxn(grp, gi))

\* One transaction of a group, applied to the evaluation state.
ApplyTxn(st, grp, gi) ==
    IF ~st.ok THEN st
    ELSE CASE Gtxn(grp, gi).type = "pay" ->
                Pay(st, Gtxn(grp, gi).sender, Gtxn(grp, gi).receiver, Gtxn(grp, gi).amount)
           [] Gtxn(grp, gi).type = "axfer" -> AssetTransfer(st, Gtxn(grp, gi))
           [] Gtxn(grp, gi).type = "appl"  -> ApplicationCall(st, grp, gi)
           [] OTHER                        -> Fail(st)

\* The transactions of a group are applied in order, from index gi on.
RECURSIVE ApplyGroup(_, _, _)
ApplyGroup(st, grp, gi) ==
    IF gi >= Len(grp) THEN st
    ELSE ApplyGroup(ApplyTxn(st, grp, gi), grp, gi + 1)

\* ------------------------------------------------------------------- state
VARIABLES
    algo,     \* currency balance of every account
    hold,     \* hold[a][x]: units of asset x held by a, or NoHolding
    gs,       \* global state: token_id, o_price, seller
    app,      \* "none" before creation, "live", "deleted"
    last,     \* the group just submitted and what became of it, until the
              \* client has waited for it
    trade     \* how far the last listing opened by open_trade got

vars == <<algo, hold, gs, app, last, trade>>

Ledger == [algo |-> algo, hold |-> hold, gs |-> gs, app |-> app]

Ledger0 ==
    [algo |-> [a \in Accounts |-> IF a = "bob" THEN Funds ELSE 0],
     hold |-> [a \in Accounts |-> [x \in Assets |->
                 IF x = 1 /\ a = "alice" THEN Supply ELSE NoHolding]],
     gs   |-> [token_id |-> Unset, o_price |-> Unset, seller |-> NoSeller],
     app  |-> "none"]

\* No group is waiting for its confirmation.
NoResponse == [op |-> "none", grp |-> <<>>, gi |-> 0, approved |-> FALSE,
               pre |-> Ledger0, inner |-> <<>>]

NoTrade == [stage |-> "none", seller |-> ZeroAddr, price |-> 0, qty |-> 0]

Init ==
    /\ algo = Ledger0.algo
    /\ hold = Ledger0.hold
    /\ gs = Ledger0.gs
    /\ app = Ledger0.app
    /\ last = NoResponse
    /\ trade = NoTrade

\* The call of the group that `last` is about.
Call(l) == Gtxn(l.grp, l.gi)

\* The listing's progress through open_trade, buy_token, close_trade as
\* TradeExample.start runs them: an approved open whose companion deposits
\* qty > 0 units of token_id with the contract, then an approved buy whose
\* companion pays price * qty to the contract, then the seller's close.
\* Rejected groups change nothing; any other approved group ends the trade.
TradeAfter(op, grp, gi, ok) ==
    LET c == Gtxn(grp, gi)
        after == Gtxn(grp, gi + 1)
        before == Gtxn(grp, gi - 1)
    IN  IF op = "close" /\ trade.stage = "bought" /\ c.sender = trade.seller
        THEN [trade EXCEPT !.stage = "closed"]
        ELSE IF ~ok THEN trade
        ELSE IF op = "open" /\ after.sender = c.sender /\ after.receiver = App
                /\ after.asset_amount > 0
        THEN [stage |-> "open", seller |-> c.sender, price |-> BtoiValue(c.args[2]),
              qty |-> after.asset_amount]
        ELSE IF op = "buy" /\ trade.stage = "open" /\ before.receiver = App
                /\ before.amount = trade.price * trade.qty
        THEN [trade EXCEPT !.stage = "bought"]
        ELSE NoTrade

\* A submission that keeps what a failed group wrote before it failed.
CommitPartial(op, grp, gi, r) ==
    /\ algo' = r.algo /\ hold' = r.hold /\ gs' = r.gs /\ app' = r.app
    /\ last' = [op |-> op, grp |-> grp, gi |-> gi, approved |-> r.ok,
                pre |-> Ledger, inner |-> IF r.ok THEN r.inner ELSE <<>>]
    /\ trade' = TradeAfter(op, grp, gi, r.ok)

\* Submitting a group: it commits as a whole or leaves the ledger untouched.
\* gi is the index of the application call the group is about.
Commit(op, grp, gi, r) ==
    /\ IF r.ok
       THEN algo' = r.algo /\ hold' = r.hold /\ gs' = r.gs /\ app' = r.app
       ELSE UNCHANGED <<algo, hold, gs, app>>
    /\ last' = [op |-> op, grp |-> grp, gi |-> gi, approved |-> r.ok,
                pre |-> Ledger, inner |-> IF r.ok THEN r.inner ELSE <<>>]
    /\ trade' = TradeAfter(op, grp, gi, r.ok)

SubmitGroup(op, grp, gi) ==
    /\ last = NoResponse
    /\ Commit(op, grp, gi,
              ApplyGroup([ok |-> TRUE, algo |-> algo, hold |-> hold, gs |-> gs,
                          app |-> app, inner |-> <<>>], grp, 0))

\* ------------------------------------------------------------------ inputs
OnCompletions == {"NoOp", "OptIn", "CloseOut", "UpdateApplication", "DeleteApplication"}

AssetLists == {<<>>} \cup {<<x>> : x \in Assets}

\* A price whose product with 2 units is just past MaxUint.
WrapPrice == (MaxUint + 2) \div 2

Prices == (0 .. MaxPrice) \cup {WrapPrice, MaxUint}

\* A price argument of one byte too many.
LongPriceArg == to_bytes(1, UintBytes + 1)

\* Companion transactions; the client signs both transactions of a group
\* with the caller's key.  Nobody holds units of asset 2.
Payments(s) == {PaymentTxn(s, r, a) : r \in Accounts, a \in 0 .. Funds}
AssetTransfers(s) ==
    {AssetTransferTxn(s, r, 1, a) : r \in Accounts, a \in 0 .. Supply}
    \cup {AssetTransferTxn(s, App, 2, a) : a \in 0 .. 1}

\* ----------------------------------------------------------------- actions
\* deploy: the creating call (application id 0).
deploy(sender, oc, assets) ==
    /\ app = "none"
    /\ SubmitGroup("create", <<ApplicationCallTxn(sender, 0, oc, <<>>, assets)>>, 0)

\* open_trade: [call "open" price, asset transfer]; also with another
\* companion, without one, or without the price argument.
open_trade(sender, args, rest) ==
    /\ app = "live"
    /\ SubmitGroup("open", <<ApplicationCallTxn(sender, 1, "NoOp", args, <<>>)>> \o rest, 0)

\* buy_token: [payment, call "buy"]; also with another companion or none.
buy_token(sender, assets, before) ==
    /\ app = "live"
    /\ SubmitGroup("buy", before \o <<ApplicationCallTxn(sender, 1, "NoOp", <<"buy">>, assets)>>,
                   Len(before))

\* close_trade: [call "close"].
close_trade(sender) ==
    /\ app = "live"
    /\ SubmitGroup("close", <<ApplicationCallTxn(sender, 1, "NoOp", <<"close">>, <<>>)>>, 0)

\* cancel_trade: [call "cancel"].
cancel_trade(sender, assets) ==
    /\ app = "live"
    /\ SubmitGroup("cancel", <<ApplicationCallTxn(sender, 1, "NoOp", <<"cancel">>, assets)>>, 0)

\* A call with another selector or without arguments, and the calls with
\* another on-completion (opt-in, close-out, update, delete).
other_call(sender, oc, args) ==
    /\ app = "live"
    /\ SubmitGroup("other", <<ApplicationCallTxn(sender, 1, oc, args, <<>>)>>, 0)

\* opt_in_to_asset: the account's zero transfer of the asset to itself.
opt_in_to_asset(asset_id, account) ==
    SubmitGroup("optin", <<AssetTransferTxn(account, account, asset_id, 0)>>, 0)

\* wait_for_transaction: the client has the outcome of its group and goes on.
wait_for_transaction ==
    /\ last # NoResponse
    /\ last' = NoResponse
    /\ UNCHANGED <<algo, hold, gs, app, trade>>

Next ==
    \/ \E s \in Users, oc \in OnCompletions, xs \in AssetLists : deploy(s, oc, xs)
    \/ \E s \in Users, p \in Prices :
          \E c \in AssetTransfers(s) \cup {PaymentTxn(s, App, 0)} :
             open_trade(s, <<"open", to_bytes(p, UintBytes)>>, <<c>>)
    \/ \E s \in Users :
          open_trade(s, <<"open", LongPriceArg>>, <<AssetTransferTxn(s, App, 1, 1)>>)
    \/ \E s \in Users : open_trade(s, <<"open", to_bytes(1, UintBytes)>>, <<>>)
    \/ \E s \in Users : open_trade(s, <<"open">>, <<AssetTransferTxn(s, App, 1, 1)>>)
    \/ \E s \in Users, xs \in AssetLists :
          \E c \in Payments(s) \cup {AssetTransferTxn(s, App, 1, 0)} :
             buy_token(s, xs, <<c>>)
    \/ \E s \in Users, xs \in AssetLists : buy_token(s, xs, <<>>)
    \/ \E s \in Users : close_trade(s)
    \/ \E s \in Users, xs \in AssetLists : cancel_trade(s, xs)
    \/ \E s \in Users, oc \in OnCompletions, args \in {<<>>, <<"bogus">>, <<"close">>} :
          /\ (oc = "NoOp" => args # <<"close">>)
          /\ other_call(s, oc, args)
    \/ \E a \in Users : opt_in_to_asset(1, a)
    \/ wait_for_transaction

Spec == Init /\ [][Next]_vars

\* ------------------------------------------------------------------ claims
\* What the claims read off `last`: the values before the group (Pre...) and
\* after it.
Caller      == Call(last).sender
PreToken    == GlobalGetUint(last.pre.gs.token_id)
PrePrice    == GlobalGetUint(last.pre.gs.o_price)
PreSeller   == last.pre.gs.seller
PreCustody  == HoldingValue(last.pre, App, PreToken)
Custody     == HoldingValue(Ledger, App, GlobalGetUint(gs.token_id))
Units(l, a, x) == IF x \in Assets /\ l.hold[a][x] # NoHolding THEN l.hold[a][x] ELSE 0
Companion   == IF last.op = "open" THEN Gtxn(last.grp, last.gi + 1)
               ELSE Gtxn(last.grp, last.gi - 1)
HasCompanion == Len(last.grp) = 2
Untouched   == Ledger = last.pre

\* C1: after a successful open(P, Q) by the seller and a successful buy whose
\* buyer paid P * Q to the contract, the seller's close is approved, raises
\* the seller's currency balance by P * Q and leaves the contract with 0.
C1_RoundTripSettles ==
    (last.op = "close" /\ trade.stage = "closed") =>
        /\ last.approved
        /\ algo[trade.seller] = last.pre.algo[trade.seller] + trade.price * trade.qty
        /\ algo[App] = 0

\* C2: after every approved buy the contract's holding line of token_id is
\* closed out (balance 0) and the caller's balance of token_id has grown by
\* exactly the custodial balance held before the buy.
C2_BuyPaysOutCustody ==
    (last.op = "buy" /\ last.approved) =>
        /\ hold[App][PreToken] = NoHolding
        /\ Custody = 0
        /\ Units(Ledger, Caller, PreToken) = Units(last.pre, Caller, PreToken) + PreCustody

C2_Witness ==
    /\ last.op = "buy" /\ last.approved
    /\ PreCustody = Supply
    /\ Units(Ledger, Caller, PreToken) = Supply

\* C3: after an approved buy the contract's currency balance has grown by
\* open_price * custodial balance (the P * Q of the listing), whatever
\* receiver the companion payment names.
C3_ContractKeepsPayment ==
    (last.op = "buy" /\ last.approved) =>
        algo[App] = last.pre.algo[App] + PrePrice * PreCustody

\* C4: a buy whose companion payment amount differs from
\* open_price * custodial balance is rejected and the custodial balance
\* (with the rest of the ledger) is unchanged.
C4_BuyAmountMismatchRejected ==
    (last.op = "buy" /\ HasCompanion /\ Companion.amount # PrePrice * PreCustody) =>
        /\ ~last.approved
        /\ Custody = PreCustody
        /\ Untouched

C4_Witness ==
    /\ last.op = "buy" /\ HasCompanion /\ Companion.type = "pay"
    /\ Companion.receiver = App
    /\ Call(last).assets = <<PreToken>>
    /\ PreCustody > 0 /\ PrePrice > 0
    /\ Companion.amount = PrePrice * PreCustody - 1
    /\ ~last.approved /\ Custody = PreCustody

\* C5: a close whose sender is not the stored seller (also when no seller was
\* ever stored) is rejected and moves no funds.
C5_CloseByNonSellerRejected ==
    (last.op = "close" /\ Caller # PreSeller) =>
        /\ ~last.approved
        /\ Untouched

C5_Witness ==
    /\ last.op = "close" /\ Caller # PreSeller /\ PreSeller # NoSeller
    /\ last.pre.algo[App] > 0
    /\ ~last.approved

\* C6: a cancel made when the custodial balance of token_id is 0 is rejected,
\* also when the contract still has a holding line with amount 0.
C6_CancelOnZeroRejected ==
    (last.op = "cancel" /\ PreCustody = 0) => ~last.approved

\* C7: an approved cancel during an active listing moves the custodial
\* balance only to the recorded seller.
C7_CancelReturnsToSeller ==
    (last.op = "cancel" /\ last.approved /\ PreCustody > 0) =>
        /\ Caller = PreSeller
        /\ Units(Ledger, PreSeller, PreToken) = Units(last.pre, PreSeller, PreToken) + PreCustody

\* C8: after every approved open, open_price is the supplied price, seller is
\* the caller and the custodial balance is the amount the companion transfer
\* deposited with the contract, whatever the state before.
Deposited == IF Companion.receiver = App THEN Companion.asset_amount ELSE 0

C8_OpenRecordsListing ==
    (last.op = "open" /\ last.approved) =>
        /\ to_bytes(gs.o_price, UintBytes) = Call(last).args[2]
        /\ gs.seller = Caller
        /\ Custody = Deposited

\* C9: an approved close by the seller with a nonzero contract currency
\* balance issues one inner payment of the whole balance to the caller and
\* leaves the contract with 0.
C9_ClosePaysWholeBalance ==
    (last.op = "close" /\ last.approved /\ last.pre.algo[App] # 0) =>
        /\ last.inner = <<PaymentTxn(App, Caller, last.pre.algo[App])>>
        /\ algo[App] = 0

\* C10: a close whose sender is the stored seller is approved in every state,
\* whatever open_price, the custodial balance and the contract's currency
\* balance are (stated for products that fit the uint, the case the
\* specification's numeric semantics cover).
C10_CloseBySellerApproved ==
    (last.op = "close" /\ Caller = PreSeller /\ MulOk(PrePrice, PreCustody)) =>
        last.approved

\* What the later claims read off the call itself.
Selectors   == {"open", "buy", "close", "cancel"}
OnExisting  == last.op # "none" /\ Call(last).type = "appl" /\ Call(last).app_id # 0
FirstAssetIs(x) == Len(Call(last).assets) > 0 /\ Call(last).assets[1] = x

\* C11: a close by the recorded seller while the contract's currency balance
\* is 0 is approved, issues no inner payment and changes no balance and no
\* global value.
C11_CloseOnEmptyIsNoOp ==
    (last.op = "close" /\ Caller = PreSeller /\ last.pre.algo[App] = 0) =>
        /\ last.approved
        /\ last.inner = <<>>
        /\ Untouched

\* C12: token_id is unset until the creating call is approved, that call
\* sets it to its first referenced asset, and no later group, approved or
\* rejected, changes it.
C12_TokenIdWrittenOnce ==
    /\ app = "none" => gs.token_id = Unset
    /\ (last.op = "create" /\ last.approved) =>
          /\ last.pre.gs.token_id = Unset
          /\ FirstAssetIs(gs.token_id)
    /\ last.op \notin {"none", "create"} => gs.token_id = last.pre.gs.token_id

C12_Witness ==
    /\ last.op = "open" /\ last.approved
    /\ gs.o_price # last.pre.gs.o_price
    /\ gs.token_id = 1 /\ last.pre.gs.token_id = 1

\* C13: an open whose following transaction is missing, is not an asset
\* transfer, or transfers another asset than token_id is rejected; open_price,
\* seller and every holding stay as they were.
C13_OpenNeedsTokenTransfer ==
    (/\ last.op = "open"
     /\ \/ ~HasCompanion
        \/ Companion.type # "axfer"
        \/ Companion.xfer_asset # PreToken) =>
        /\ ~last.approved
        /\ Untouched

C13_Witness ==
    /\ last.op = "open" /\ ~last.approved
    /\ HasCompanion /\ Companion.type = "axfer"
    /\ Companion.xfer_asset # PreToken
    /\ last.pre.app = "live"

C15_UnknownSelectorRejected ==
    (/\ OnExisting
     /\ Call(last).on_completion = "NoOp"
     /\ (Len(Call(last).args) = 0 \/ Call(last).args[1] \notin Selectors)) =>
        /\ ~last.approved
        /\ Untouched

C15_Witness ==
    /\ last.op = "other" /\ last.pre.app = "live"
    /\ Call(last).on_completion = "NoOp"
    /\ Call(last).args = <<"bogus">>
    /\ ~last.approved

\* C16 as stated: every call whose on-completion is opt-in, close-out or
\* update is rejected, the creating call included.
C16_LifecycleAlwaysRejected ==
    (/\ last.op # "none" /\ Call(last).type = "appl"
     /\ Call(last).on_completion \in {"OptIn", "CloseOut", "UpdateApplication"}) =>
        ~last.approved

\* C16, amended: every call of the existing contract whose on-completion is
\* opt-in, close-out or update is rejected, in every state and for every
\* caller, and changes nothing.
C16_LifecycleRejectedOnExisting ==
    (/\ OnExisting
     /\ Call(last).on_completion \in {"OptIn", "CloseOut", "UpdateApplication"}) =>
        /\ ~last.approved
        /\ Untouched

C16_Witness ==
    /\ last.op = "other" /\ last.pre.app = "live"
    /\ Call(last).on_completion = "OptIn"
    /\ PreCustody > 0
    /\ ~last.approved

\* C17: a deletion call of the existing contract is approved for every caller
\* and in every state, and deletes the contract.
C17_DeleteAlwaysApproved ==
    (OnExisting /\ last.pre.app = "live"
        /\ Call(last).on_completion = "DeleteApplication") =>
        /\ last.approved
        /\ app = "deleted"

\* A caller who is not the seller deletes the contract while it holds units.
C17_Witness ==
    /\ last.op = "other" /\ Call(last).on_completion = "DeleteApplication"
    /\ Caller # PreSeller
    /\ PreCustody > 0
    /\ last.approved /\ app = "deleted"

\* C18: a buy is rejected when the transaction before the call is missing or
\* is not a payment, when the call's first referenced asset is not token_id,
\* or when the custodial balance is 0.
C18_BuyRejections ==
    (/\ last.op = "buy"
     /\ \/ ~HasCompanion
        \/ Companion.type # "pay"
        \/ ~FirstAssetIs(PreToken)
        \/ PreCustody = 0) =>
        /\ ~last.approved
        /\ Untouched

\* The contract holds a line of token_id with 0 units, the payment is of
\* open_price * 0 = 0 and the referenced asset is token_id.
C18_Witness ==
    /\ last.op = "buy" /\ ~last.approved
    /\ HasCompanion /\ Companion.type = "pay" /\ Companion.amount = 0
    /\ FirstAssetIs(PreToken)
    /\ HoldingHasValue(last.pre, App, PreToken) /\ PreCustody = 0

\* What an approved cancel does, as C19 words it.
CancelReturnsCustody ==
    /\ last.approved
    /\ Custody = 0
    /\ Units(Ledger, Caller, PreToken) = Units(last.pre, Caller, PreToken) + PreCustody
    /\ gs = last.pre.gs
    /\ algo[App] = last.pre.algo[App]

\* C19 as stated: with a positive custodial balance, a cancel naming token_id
\* is approved and hands the whole balance to the caller; a cancel naming
\* another asset is rejected.
C19_CancelAlwaysApproved ==
    (last.op = "cancel" /\ PreCustody > 0) =>
        IF FirstAssetIs(PreToken) THEN CancelReturnsCustody ELSE ~last.approved

\* C19, amended: the same, for a caller who is opted in to token_id.
C19_CancelByHolderApproved ==
    (last.op = "cancel" /\ PreCustody > 0) =>
        /\ (FirstAssetIs(PreToken) /\ HoldingHasValue(last.pre, Caller, PreToken))
              => CancelReturnsCustody
        /\ ~FirstAssetIs(PreToken) => ~last.approved

C19_Witness ==
    /\ last.op = "cancel" /\ last.approved
    /\ PreCustody = Supply
    /\ Units(Ledger, Caller, PreToken) = Supply

\* C20: while the custodial balance is positive, no call from an account
\* other than the stored seller changes seller or open_price.
C20_ListingTermsProtected ==
    (OnExisting /\ PreCustody > 0 /\ Caller # PreSeller) =>
        /\ gs.seller = PreSeller
        /\ gs.o_price = last.pre.gs.o_price

\* C21: when open_price * custodial balance exceeds MaxUint the product is
\* not taken modulo MaxUint + 1: every buy is rejected, whatever it pays, and
\* so is the seller's close; both change nothing.
C21_OverflowRejected ==
    (/\ last.op \in {"buy", "close"}
     /\ ~MulOk(PrePrice, PreCustody)) =>
        /\ ~last.approved
        /\ Untouched

\* A buy paying the contract the wrapped product, for the right asset.
C21_Witness ==
    /\ last.op = "buy" /\ ~last.approved
    /\ ~MulOk(PrePrice, PreCustody)
    /\ HasCompanion /\ Companion.type = "pay" /\ Companion.receiver = App
    /\ Companion.amount = (PrePrice * PreCustody) % (MaxUint + 1)
    /\ last.pre.algo[Caller] >= Companion.amount
    /\ FirstAssetIs(PreToken)
    /\ HoldingHasValue(last.pre, Caller, PreToken)

\* The units of asset x held by the accounts of S together.
RECURSIVE TotalUnits(_, _, _)
TotalUnits(l, x, S) ==
    IF S = {} THEN 0
    ELSE LET a == CHOOSE b \in S : TRUE
         IN  Units(l, a, x) + TotalUnits(l, x, S \ {a})

\* What the contract held of the token before the group, now.
CustodyLeft == HoldingValue(Ledger, App, PreToken)

\* C22: the units of every asset held by the accounts and the contract
\* together never change; the contract's holding of token_id shrinks only by
\* an approved buy or cancel, and then to 0; the contract's currency balance
\* shrinks only by an approved close of the recorded seller, who receives
\* what the contract loses, and never goes below 0.
C22_Conservation ==
    /\ \A x \in Assets : TotalUnits(Ledger, x, Accounts) = TotalUnits(Ledger0, x, Accounts)
    /\ algo[App] >= 0
    /\ (last.op # "none" /\ CustodyLeft < PreCustody) =>
          /\ last.op \in {"buy", "cancel"} /\ last.approved
          /\ CustodyLeft = 0
    /\ (last.op # "none" /\ algo[App] < last.pre.algo[App]) =>
          /\ last.op = "close" /\ last.approved
          /\ Caller = PreSeller
          /\ algo[Caller] - last.pre.algo[Caller] = last.pre.algo[App] - algo[App]

\* An approved close that moved currency out of the contract, with every
\* unit of the token still accounted for.
C22_Witness ==
    /\ last.op = "close" /\ last.approved
    /\ algo[App] < last.pre.algo[App]
    /\ TotalUnits(Ledger, PreToken, Accounts) = Supply

====
